---- MODULE Spec2Model ----
(***************************************************************************)
(* Model of utils/extract_chars.py: extract_charset(rom_path, output_path) *)
(* reads a ROM image, checks its length, slices the character-set window   *)
(* and writes it to the destination as a C array, one write per line.      *)
(*                                                                         *)
(* Text is modelled as a sequence of code points (a Python str).  A bytes  *)
(* object is a sequence of integers 0..255; the 16 KiB image is held by    *)
(* its length and the rule that gives the byte at each offset (ByteAt), so *)
(* that len() and slicing are exact while a state stays small.  Python     *)
(* offset o of a sequence is element o + 1 of the TLA+ sequence.           *)
(***************************************************************************)
EXTENDS Integers, Sequences, FiniteSets

\* ------------------------------------------------------------ constants
\* extract_chars.py:12-14
CHAR_START == 15616
CHAR_SIZE == 8
NUM_CHARS == 96

\* The arguments of the call (extract_chars.py:9, 78-81).
rom_path == "zx48.rom"
output_path == "charset.h"

\* ------------------------------------------------------------ bounds
\* Source images are up to MaxExtra bytes longer than the minimum size.
MaxExtra == 1
\* Byte patterns 0..MaxPattern fill the window and the rest of an image.
MaxPattern == 1

\* ------------------------------------------------------------ inputs
\* The size the length check compares with (extract_chars.py:21).
MinSize == CHAR_START + (NUM_CHARS * CHAR_SIZE)

\* Pattern 0 is "each byte equal to its own offset modulo 256".
Pattern(k, o) == (o * (2 * k + 1) + 89 * k) % 256

InWindow(o) == CHAR_START <= o /\ o < MinSize

\* A source image of len bytes: pattern w inside the window, p outside it.
Image(len, w, p) == [len |-> len, w |-> w, p |-> p]

\* len(b) and b[o] of an image b, for 0 <= o < len(b).
BytesLen(b) == b.len
ByteAt(b, o) == IF InWindow(o) THEN Pattern(b.w, o) ELSE Pattern(b.p, o)

\* The empty bytes object.
NoBytes == Image(0, 0, 0)

\* The bytes of image b at offsets 15616 .. 15616 + 768 - 1.
Window(b) == [j \in 1..768 |-> ByteAt(b, 15616 + j - 1)]

Lengths == {MinSize - 1} \cup (MinSize..(MinSize + MaxExtra))

Images ==
    {NoBytes} \cup
    {Image(len, w, p) : len \in Lengths, w \in 0..MaxPattern, p \in 0..MaxPattern}

\* What the destination may hold before the call: " old\n".
OldContent == <<32, 111, 108, 100, 10>>

\* The source path: no such file, a file that may not be read, or a file.
SourceStates ==
    {[kind |-> "missing", data |-> NoBytes], [kind |-> "denied", data |-> NoBytes]}
        \cup {[kind |-> "file", data |-> img] : img \in Images}

\* The destination path: absent, an existing file, a path whose directory
\* does not exist, or a path that may not be written.
DestStates ==
    {[kind |-> "absent", data |-> <<>>],
     [kind |-> "file", data |-> OldContent],
     [kind |-> "nodir", data |-> <<>>],
     [kind |-> "denied", data |-> <<>>]}

\* ------------------------------------------------------------ state
VARIABLES
    src,        \* file system: the file at rom_path
    dst,        \* file system: the file at output_path
    dst0,       \* dst as it was when the current call began
    pc,         \* the statement extract_charset is at
    rom_data,   \* local: the bytes read
    charset,    \* local: the sliced window
    hdr,        \* number of header writes done (lines 30-35)
    char_idx,   \* local: the loop variable
    srcOpen,    \* the source file object is open
    dstOpen,    \* the destination file object is open
    dstOpens,   \* number of times this call opened the destination
    exc,        \* the exception being raised, or NoExc
    stdout,     \* what this call printed
    prev        \* the previous call, when there was one

vars == <<src, dst, dst0, pc, rom_data, charset, hdr, char_idx,
          srcOpen, dstOpen, dstOpens, exc, stdout, prev>>

NoExc == [type |-> "none", path |-> ""]
Raise(type, path) == [type |-> type, path |-> path]

\* The four messages of extract_charset (lines 22, 61, 64, 66).
Report(kind, path, num, err) == [kind |-> kind, path |-> path, num |-> num, err |-> err]

NoPrev == [ran |-> FALSE, win |-> <<>>, changed |-> FALSE]

Init ==
    /\ src \in SourceStates
    /\ dst \in DestStates
    /\ dst0 = dst
    /\ pc = "call"
    /\ rom_data = NoBytes
    /\ charset = <<>>
    /\ hdr = 0
    /\ char_idx = 0
    /\ srcOpen = FALSE
    /\ dstOpen = FALSE
    /\ dstOpens = 0
    /\ exc = NoExc
    /\ stdout = <<>>
    /\ prev = NoPrev

\* ------------------------------------------------------------ formatting
Min(a, b) == IF a < b THEN a ELSE b

\* Python's s[a:b] for 0 <= a <= b: both ends are clamped to len(s).
PySlice(s, a, b) == SubSeq(s, Min(a, Len(s)) + 1, Min(b, Len(s)))

\* The same slice of an image, as a sequence of bytes.
BytesSlice(img, a, b) ==
    LET lo == Min(a, BytesLen(img))
        hi == Min(b, BytesLen(img))
    IN  [j \in 1..(hi - lo) |-> ByteAt(img, lo + j - 1)]

\* Concatenation of a sequence of texts with sep between them: sep.join(ts).
RECURSIVE Join(_, _)
Join(sep, ts) ==
    IF Len(ts) = 0 THEN <<>>
    ELSE IF Len(ts) = 1 THEN ts[1]
    ELSE ts[1] \o sep \o Join(sep, Tail(ts))

\* One digit of format code X: 0-9, then A-F.
HexDigit(d) == IF d < 10 THEN 48 + d ELSE 65 + (d - 10)

\* Mutant of FormatByte: format code x, lowercase digits.
FormatByteLower(b) ==
    <<48, 120, IF b \div 16 < 10 THEN 48 + (b \div 16) ELSE 97 + ((b \div 16) - 10),
               IF b % 16 < 10 THEN 48 + (b % 16) ELSE 97 + ((b % 16) - 10)>>

\* f'0x{b:02X}' (line 45): two uppercase hexadecimal digits, zero padded.
FormatByte(b) == <<48, 120, HexDigit(b \div 16), HexDigit(b % 16)>>

\* The decimal digits of n >= 0, most significant first: str(n).
RECURSIVE Decimal(_)
Decimal(n) == IF n < 10 THEN <<48 + n>> ELSE Decimal(n \div 10) \o <<48 + (n % 10)>>

\* f'{n:3d}' (lines 49-53): right-aligned in three columns, space padded.
Format3d(n) ==
    LET d == Decimal(n)
    IN  [i \in 1..(3 - Len(d)) |-> 32] \o d

\* chr(n): the one-character text with code point n.
chr(n) == <<n>>

\* char_name (line 42).
CharName(ascii_code) ==
    IF 33 <= ascii_code /\ ascii_code <= 126 THEN chr(ascii_code) ELSE chr(32)

\* byte_str (line 45): ', '.join(f'0x{b:02X}' for b in char_bytes).
ByteStr(char_bytes) ==
    Join(<<44, 32>>, [j \in 1..Len(char_bytes) |-> FormatByte(char_bytes[j])])

\* Mutant of Comment: the glyph range runs to 127.
CommentGlyphTo127(ascii_code) ==
    IF ascii_code = 32
    THEN <<32, 32, 47, 42, 32, 65, 83, 67, 73, 73, 32>> \o Format3d(ascii_code)
             \o <<32, 40, 83, 80, 65, 67, 69, 41, 32, 42, 47>>
    ELSE <<32, 32, 47, 42, 32, 65, 83, 67, 73, 73, 32>> \o Format3d(ascii_code)
             \o <<32, 40, 39>> \o chr(ascii_code) \o <<39, 41, 32, 42, 47>>

\* comment (lines 48-53).
Comment(ascii_code) ==
    IF ascii_code = 32
    THEN <<32, 32, 47, 42, 32, 65, 83, 67, 73, 73, 32>> \o Format3d(ascii_code)
             \o <<32, 40, 83, 80, 65, 67, 69, 41, 32, 42, 47>>
    ELSE IF 33 <= ascii_code /\ ascii_code <= 126
    THEN <<32, 32, 47, 42, 32, 65, 83, 67, 73, 73, 32>> \o Format3d(ascii_code)
             \o <<32, 40, 39>> \o CharName(ascii_code) \o <<39, 41, 32, 42, 47>>
    ELSE <<32, 32, 47, 42, 32, 65, 83, 67, 73, 73, 32>> \o Format3d(ascii_code)
             \o <<32, 42, 47>>

\* Mutant of Comma: the test is idx < NUM_CHARS.
CommaAlways(idx) == IF idx < NUM_CHARS THEN <<44>> ELSE <<>>

\* comma (line 56).
Comma(idx) == IF idx < NUM_CHARS - 1 THEN <<44>> ELSE <<>>

\* The text one pass of the loop body writes (lines 38-57):
\* f"    {{{byte_str}}}{comma}{comment}\n".
FormatLine(cs, idx) ==
    LET offset == idx * CHAR_SIZE
        char_bytes == PySlice(cs, offset, offset + CHAR_SIZE)
        ascii_code == idx + 32
    IN  <<32, 32, 32, 32, 123>> \o ByteStr(char_bytes) \o <<125>>
            \o Comma(idx) \o Comment(ascii_code) \o <<10>>

\* The texts of the six header writes (lines 30-35).
Header ==
    << \* "/*\n"
       <<47, 42, 10>>,
       \* " * ZX Spectrum Character Set\n"
       <<32, 42, 32, 90, 88, 32, 83, 112, 101, 99, 116, 114, 117, 109, 32, 67,
         104, 97, 114, 97, 99, 116, 101, 114, 32, 83, 101, 116, 10>>,
       \* " * Extracted from ROM at address 0x3D00\n"
       <<32, 42, 32, 69, 120, 116, 114, 97, 99, 116, 101, 100, 32, 102, 114,
         111, 109, 32, 82, 79, 77, 32, 97, 116, 32, 97, 100, 100, 114, 101,
         115, 115, 32, 48, 120, 51, 68, 48, 48, 10>>,
       \* " * 96 characters (ASCII 32-127), 8 bytes each\n"
       <<32, 42, 32, 57, 54, 32, 99, 104, 97, 114, 97, 99, 116, 101, 114, 115,
         32, 40, 65, 83, 67, 73, 73, 32, 51, 50, 45, 49, 50, 55, 41, 44, 32,
         56, 32, 98, 121, 116, 101, 115, 32, 101, 97, 99, 104, 10>>,
       \* " */\n\n"
       <<32, 42, 47, 10, 10>>,
       \* "const unsigned char zx_spectrum_charset[96][8] = {\n"
       <<99, 111, 110, 115, 116, 32, 117, 110, 115, 105, 103, 110, 101, 100,
         32, 99, 104, 97, 114, 32, 122, 120, 95, 115, 112, 101, 99, 116, 114,
         117, 109, 95, 99, 104, 97, 114, 115, 101, 116, 91, 57, 54, 93, 91,
         56, 93, 32, 61, 32, 123, 10>> >>

\* The text of the last write (line 59): "};\n".
Footer == <<125, 59, 10>>

\* ------------------------------------------------------------ the call
\* Leaving extract_charset: its locals are gone.
Return ==
    /\ pc' = "done"
    /\ rom_data' = NoBytes
    /\ charset' = <<>>
    /\ hdr' = 0
    /\ char_idx' = 0

\* print(...) (lines 22, 61, 64, 66).
print(r) == stdout' = Append(stdout, r)

\* Line 17: open(rom_path, 'rb').
OpenSource ==
    /\ pc = "call"
    /\ IF src.kind = "missing"
       THEN /\ exc' = Raise("FileNotFoundError", rom_path)
            /\ pc' = "except"
            /\ UNCHANGED srcOpen
       ELSE IF src.kind = "denied"
       THEN /\ exc' = Raise("PermissionError", rom_path)
            /\ pc' = "except"
            /\ UNCHANGED srcOpen
       ELSE /\ srcOpen' = TRUE
            /\ pc' = "read"
            /\ UNCHANGED exc
    /\ UNCHANGED <<src, dst, dst0, rom_data, charset, hdr, char_idx,
                   dstOpen, dstOpens, stdout, prev>>

\* Line 18: rom_data = f.read(); the device may fail the read.
ReadSource ==
    /\ pc = "read"
    /\ \E ok \in BOOLEAN :
          IF ok
          THEN /\ rom_data' = src.data
               /\ UNCHANGED exc
          ELSE /\ exc' = Raise("OSError", rom_path)
               /\ UNCHANGED rom_data
    /\ pc' = "close_src"
    /\ UNCHANGED <<src, dst, dst0, charset, hdr, char_idx,
                   srcOpen, dstOpen, dstOpens, stdout, prev>>

\* Lines 17-18: leaving the with block closes the source, raising or not.
CloseSource ==
    /\ pc = "close_src"
    /\ srcOpen' = FALSE
    /\ pc' = IF exc = NoExc THEN "check" ELSE "except"
    /\ UNCHANGED <<src, dst, dst0, rom_data, charset, hdr, char_idx,
                   dstOpen, dstOpens, exc, stdout, prev>>

\* Mutant of CheckSize: the test leaves out the span of the window.
CheckSizeNoSpan ==
    /\ pc = "check"
    /\ IF BytesLen(rom_data) < CHAR_START
       THEN /\ print(Report("TooSmall", "", CHAR_START + (NUM_CHARS * CHAR_SIZE), ""))
            /\ Return
       ELSE /\ pc' = "slice"
            /\ UNCHANGED <<rom_data, charset, hdr, char_idx, stdout>>
    /\ UNCHANGED <<src, dst, dst0, srcOpen, dstOpen, dstOpens, exc, prev>>

\* Mutant of CheckSize: the return after the message is missing.
CheckSizeNoReturn ==
    /\ pc = "check"
    /\ IF BytesLen(rom_data) < CHAR_START + (NUM_CHARS * CHAR_SIZE)
       THEN print(Report("TooSmall", "", CHAR_START + (NUM_CHARS * CHAR_SIZE), ""))
       ELSE UNCHANGED stdout
    /\ pc' = "slice"
    /\ UNCHANGED <<src, dst, dst0, rom_data, charset, hdr, char_idx,
                   srcOpen, dstOpen, dstOpens, exc, prev>>

\* Lines 21-23: the length check; too small prints and returns.
CheckSize ==
    /\ pc = "check"
    /\ IF BytesLen(rom_data) < CHAR_START + (NUM_CHARS * CHAR_SIZE)
       THEN /\ print(Report("TooSmall", "", CHAR_START + (NUM_CHARS * CHAR_SIZE), ""))
            /\ Return
       ELSE /\ pc' = "slice"
            /\ UNCHANGED <<rom_data, charset, hdr, char_idx, stdout>>
    /\ UNCHANGED <<src, dst, dst0, srcOpen, dstOpen, dstOpens, exc, prev>>

\* Mutant of Slice: the window is taken from the end of the image.
SliceFromEnd ==
    /\ pc = "slice"
    /\ charset' = BytesSlice(rom_data, BytesLen(rom_data) - (NUM_CHARS * CHAR_SIZE), BytesLen(rom_data))
    /\ pc' = "open_dst"
    /\ UNCHANGED <<src, dst, dst0, rom_data, hdr, char_idx,
                   srcOpen, dstOpen, dstOpens, exc, stdout, prev>>

\* Line 26: charset = rom_data[CHAR_START:CHAR_START + (NUM_CHARS * CHAR_SIZE)].
Slice ==
    /\ pc = "slice"
    /\ charset' = BytesSlice(rom_data, CHAR_START, CHAR_START + (NUM_CHARS * CHAR_SIZE))
    /\ pc' = "open_dst"
    /\ UNCHANGED <<src, dst, dst0, rom_data, hdr, char_idx,
                   srcOpen, dstOpen, dstOpens, exc, stdout, prev>>

\* Mutant of OpenDest: mode 'a', the existing content is kept.
OpenDestAppend ==
    /\ pc = "open_dst"
    /\ IF dst.kind = "nodir"
       THEN /\ exc' = Raise("FileNotFoundError", output_path)
            /\ pc' = "except"
            /\ UNCHANGED <<dst, dstOpen, dstOpens>>
       ELSE IF dst.kind = "denied"
       THEN /\ exc' = Raise("PermissionError", output_path)
            /\ pc' = "except"
            /\ UNCHANGED <<dst, dstOpen, dstOpens>>
       ELSE /\ dst' = [kind |-> "file", data |-> dst.data]
            /\ dstOpen' = TRUE
            /\ dstOpens' = dstOpens + 1
            /\ pc' = "header"
            /\ UNCHANGED exc
    /\ UNCHANGED <<src, dst0, rom_data, charset, hdr, char_idx,
                   srcOpen, stdout, prev>>

\* Line 29: open(output_path, 'w') creates the file or truncates it.
OpenDest ==
    /\ pc = "open_dst"
    /\ IF dst.kind = "nodir"
       THEN /\ exc' = Raise("FileNotFoundError", output_path)
            /\ pc' = "except"
            /\ UNCHANGED <<dst, dstOpen, dstOpens>>
       ELSE IF dst.kind = "denied"
       THEN /\ exc' = Raise("PermissionError", output_path)
            /\ pc' = "except"
            /\ UNCHANGED <<dst, dstOpen, dstOpens>>
       ELSE /\ dst' = [kind |-> "file", data |-> <<>>]
            /\ dstOpen' = TRUE
            /\ dstOpens' = dstOpens + 1
            /\ pc' = "header"
            /\ UNCHANGED exc
    /\ UNCHANGED <<src, dst0, rom_data, charset, hdr, char_idx,
                   srcOpen, stdout, prev>>

\* Mutant of Write: no with block, a failed write goes straight to the
\* handlers and the close is skipped.
WriteNoUnwind(text, ok, next) ==
    IF ok
    THEN /\ dst' = [dst EXCEPT !.data = @ \o text]
         /\ pc' = next
         /\ UNCHANGED exc
    ELSE /\ exc' = Raise("OSError", output_path)
         /\ pc' = "except"
         /\ UNCHANGED dst

\* f.write(text) on the destination: the text is appended, or the device
\* fails the write and OSError is raised inside the with block.
Write(text, ok, next) ==
    IF ok
    THEN /\ dst' = [dst EXCEPT !.data = @ \o text]
         /\ pc' = next
         /\ UNCHANGED exc
    ELSE /\ exc' = Raise("OSError", output_path)
         /\ pc' = "close_dst"
         /\ UNCHANGED dst

\* Lines 30-35: the six header writes, one per step.
WriteHeader ==
    /\ pc = "header"
    /\ \E ok \in BOOLEAN :
          /\ Write(Header[hdr + 1], ok, IF hdr + 1 < Len(Header) THEN "header" ELSE "loop")
          /\ hdr' = IF ok THEN hdr + 1 ELSE hdr
    /\ UNCHANGED <<src, dst0, rom_data, charset, char_idx,
                   srcOpen, dstOpen, dstOpens, stdout, prev>>

\* Lines 37-57: one pass of the loop over range(NUM_CHARS).
WriteChar ==
    /\ pc = "loop"
    /\ char_idx < NUM_CHARS
    /\ \E ok \in BOOLEAN :
          /\ Write(FormatLine(charset, char_idx), ok,
                   IF char_idx + 1 < NUM_CHARS THEN "loop" ELSE "footer")
          /\ char_idx' = IF ok THEN char_idx + 1 ELSE char_idx
    /\ UNCHANGED <<src, dst0, rom_data, charset, hdr,
                   srcOpen, dstOpen, dstOpens, stdout, prev>>

\* Line 59: f.write("};\n").
WriteFooter ==
    /\ pc = "footer"
    /\ \E ok \in BOOLEAN : Write(Footer, ok, "close_dst")
    /\ UNCHANGED <<src, dst0, rom_data, charset, hdr, char_idx,
                   srcOpen, dstOpen, dstOpens, stdout, prev>>

\* Lines 29-59: leaving the with block closes the destination, raising or
\* not; the flush of the close may itself fail, and the file is closed still.
CloseDest ==
    /\ pc = "close_dst"
    /\ dstOpen' = FALSE
    /\ \E ok \in BOOLEAN :
          /\ exc' = IF ok THEN exc ELSE Raise("OSError", output_path)
          /\ pc' = IF ok /\ exc = NoExc THEN "print" ELSE "except"
    /\ UNCHANGED <<src, dst, dst0, rom_data, charset, hdr, char_idx,
                   srcOpen, dstOpens, stdout, prev>>

\* Line 61: the success message, then the function returns.
PrintSuccess ==
    /\ pc = "print"
    /\ print(Report("Success", output_path, NUM_CHARS, ""))
    /\ Return
    /\ UNCHANGED <<src, dst, dst0, srcOpen, dstOpen, dstOpens, exc, prev>>

\* Mutant of HandleNotFound: the clause prints the exception like the
\* general one.
HandleNotFoundAsGeneric ==
    /\ pc = "except"
    /\ exc.type = "FileNotFoundError"
    /\ print(Report("Error", exc.path, 0, exc.type))
    /\ exc' = NoExc
    /\ Return
    /\ UNCHANGED <<src, dst, dst0, srcOpen, dstOpen, dstOpens, prev>>

\* Lines 63-64: except FileNotFoundError, the first clause tried.
HandleNotFound ==
    /\ pc = "except"
    /\ exc.type = "FileNotFoundError"
    /\ print(Report("NotFound", rom_path, 0, ""))
    /\ exc' = NoExc
    /\ Return
    /\ UNCHANGED <<src, dst, dst0, srcOpen, dstOpen, dstOpens, prev>>

\* Lines 65-66: except Exception as e, for what the first clause let pass.
HandleException ==
    /\ pc = "except"
    /\ exc.type # "FileNotFoundError"
    /\ exc.type \in {"PermissionError", "OSError"}
    /\ print(Report("Error", exc.path, 0, exc.type))
    /\ exc' = NoExc
    /\ Return
    /\ UNCHANGED <<src, dst, dst0, srcOpen, dstOpen, dstOpens, prev>>

\* Lines 78-81: the tool is run once more with the same two paths after a
\* run that reported success; the source may have been replaced meanwhile.
Rerun ==
    /\ pc = "done"
    /\ ~prev.ran
    /\ stdout = <<Report("Success", output_path, NUM_CHARS, "")>>
    /\ \E img \in Images :
          /\ src' = [kind |-> "file", data |-> img]
          /\ prev' = [ran |-> TRUE, win |-> Window(src.data), changed |-> img # src.data]
    /\ dst0' = dst
    /\ pc' = "call"
    /\ dstOpens' = 0
    /\ stdout' = <<>>
    /\ UNCHANGED <<dst, rom_data, charset, hdr, char_idx, srcOpen, dstOpen, exc>>

\* One statement of extract_charset.
Step ==
    \/ OpenSource
    \/ ReadSource
    \/ CloseSource
    \/ CheckSize
    \/ Slice
    \/ OpenDest
    \/ WriteHeader
    \/ WriteChar
    \/ WriteFooter
    \/ CloseDest
    \/ PrintSuccess
    \/ HandleNotFound
    \/ HandleException

Next == Step \/ Rerun

Spec == Init /\ [][Next]_vars

\* One call, run by the interpreter statement after statement: a call that
\* can take a step is never suspended for ever.
FairSpec == Init /\ [][Step]_vars /\ WF_vars(Step)

\* ------------------------------------------------------------ reading text
\* The positions of the line feeds of text t.
NewLines(t) == {p \in 1..Len(t) : t[p] = 10}

\* The lines of t, each without its line feed (t ends with a line feed).
Lines(t) ==
    LET nl == NewLines(t)
        end(k) == CHOOSE p \in nl : Cardinality({q \in nl : q < p}) = k - 1
    IN  [k \in 1..Cardinality(nl) |->
            SubSeq(t, IF k = 1 THEN 1 ELSE end(k - 1) + 1, end(k) - 1)]

\* An array line starts with four spaces and an opening brace.
IsArrayLine(l) == Len(l) >= 5 /\ SubSeq(l, 1, 5) = <<32, 32, 32, 32, 123>>

ArrayLines(t) == SelectSeq(Lines(t), IsArrayLine)

\* The position of the first closing brace of line l, 0 when it has none.
ClosePos(l) ==
    IF \E p \in 1..Len(l) : l[p] = 125
    THEN CHOOSE p \in 1..Len(l) : l[p] = 125 /\ \A q \in 1..(p - 1) : l[q] # 125
    ELSE 0

IsUpperHex(c) == (48 <= c /\ c <= 57) \/ (65 <= c /\ c <= 70)
HexValue(c) == IF c <= 57 THEN c - 48 ELSE c - 55
IsDigit(c) == 48 <= c /\ c <= 57

\* Line l lists exactly the bytes bs between its braces: 0xHH, 0xHH, ...
ListsBytes(l, bs) ==
    LET c == ClosePos(l)
        body == SubSeq(l, 6, c - 1)
    IN  /\ c > 0
        /\ Len(body) = 4 * Len(bs) + 2 * (Len(bs) - 1)
        /\ \A j \in 0..(Len(bs) - 1) :
              /\ body[6 * j + 1] = 48
              /\ body[6 * j + 2] = 120
              /\ IsUpperHex(body[6 * j + 3])
              /\ IsUpperHex(body[6 * j + 4])
              /\ 16 * HexValue(body[6 * j + 3]) + HexValue(body[6 * j + 4]) = bs[j + 1]
              /\ j < Len(bs) - 1 => body[6 * j + 5] = 44 /\ body[6 * j + 6] = 32

\* The number a three-column decimal field shows, -1 when it shows none.
FieldValue(f) ==
    IF Len(f) # 3 \/ ~IsDigit(f[3]) THEN -1
    ELSE IF f[1] = 32 /\ f[2] = 32 THEN f[3] - 48
    ELSE IF f[1] = 32 /\ IsDigit(f[2]) THEN 10 * (f[2] - 48) + (f[3] - 48)
    ELSE IF IsDigit(f[1]) /\ f[1] # 48 /\ IsDigit(f[2])
    THEN 100 * (f[1] - 48) + 10 * (f[2] - 48) + (f[3] - 48)
    ELSE -1

\* What follows the closing brace and the comma, if any, of line l.
CommentOf(l) ==
    LET c == ClosePos(l)
    IN  SubSeq(l, IF c < Len(l) /\ l[c + 1] = 44 THEN c + 2 ELSE c + 1, Len(l))

\* The 8 bytes of the source at offsets CHAR_START + 8*i .. CHAR_START + 8*i + 7.
SourceBytes(i) == [j \in 1..8 |-> ByteAt(src.data, 15616 + 8 * i + j - 1)]

LargeEnough == src.kind = "file" /\ BytesLen(src.data) >= 15616 + 768

Success == Report("Success", output_path, NUM_CHARS, "")

\* The call has returned with the success message as its only report.
Succeeded == pc = "done" /\ stdout = <<Success>>

C2_TooSmallLeavesDestination ==
    (src.kind = "file" /\ BytesLen(src.data) < 15616 + 768) =>
        /\ dst = dst0
        /\ dstOpens = 0
        /\ ~dstOpen
        /\ pc = "done" =>
              \/ stdout = <<Report("TooSmall", "", 15616 + 768, "")>>
              \/ stdout = <<Report("Error", rom_path, 0, "OSError")>>

C2_Witness ==
    /\ pc = "done"
    /\ src.kind = "file"
    /\ BytesLen(src.data) = 15616 + 768 - 1
    /\ dst0.kind = "file"
    /\ dst.data = OldContent
    /\ stdout = <<Report("TooSmall", "", 15616 + 768, "")>>

\* C3: for a missing source path the call ends with the not-found message
\* naming the source path and nothing happens to the destination, whatever
\* the destination path is.
C3_MissingSourceNotFound ==
    src.kind = "missing" =>
        /\ dst = dst0
        /\ dstOpens = 0
        /\ ~dstOpen
        /\ pc = "done" => stdout = <<Report("NotFound", rom_path, 0, "")>>

C3_Witness ==
    /\ pc = "done"
    /\ src.kind = "missing"
    /\ dst.kind = "nodir"
    /\ stdout = <<Report("NotFound", rom_path, 0, "")>>

\* C4: the not-found message naming the source path is reported only when
\* the source path cannot be opened; a failure to open or write the
\* destination after the source was read and found large enough is reported
\* with the underlying error, never as source-not-found.
C4_ReportedByCause ==
    pc = "done" =>
        \A k \in 1..Len(stdout) :
            /\ stdout[k].kind = "NotFound" => src.kind # "file"
            /\ (LargeEnough /\ dst0.kind \in {"nodir", "denied"}) => stdout[k].kind = "Error"

\* C5: in a successfully written output the last array line (index 95) has
\* no comma after its closing brace, and every other array line has one.
C5_TrailingComma ==
    Succeeded =>
        LET al == ArrayLines(dst.data)
        IN  /\ Len(al) = 96
            /\ \A i \in 0..95 :
                  LET l == al[i + 1]
                      c == ClosePos(l)
                  IN  /\ c > 0 /\ c < Len(l)
                      /\ i < 95 => l[c + 1] = 44
                      /\ i = 95 => l[c + 1] # 44

C5_Witness ==
    /\ Succeeded
    /\ Len(ArrayLines(dst.data)) = 96
    /\ ArrayLines(dst.data)[96][ClosePos(ArrayLines(dst.data)[96]) + 1] = 32

\* C6: the comment of array line i carries the code i + 32 and its label
\* depends on that code alone: (SPACE) for index 0, the code and the
\* character chr(i + 32) in quotes for 1..94, the code only for index 95.
C6_CommentByCode ==
    Succeeded =>
        LET al == ArrayLines(dst.data)
        IN  /\ Len(al) = 96
            /\ \A i \in 0..95 :
                  LET cm == CommentOf(al[i + 1])
                      label == SubSeq(cm, 15, Len(cm))
                  IN  /\ SubSeq(cm, 1, 11) = <<32, 32, 47, 42, 32, 65, 83, 67, 73, 73, 32>>
                      /\ FieldValue(SubSeq(cm, 12, 14)) = i + 32
                      /\ i = 0 => label = <<32, 40, 83, 80, 65, 67, 69, 41, 32, 42, 47>>
                      /\ (1 <= i /\ i <= 94) =>
                            label = <<32, 40, 39, i + 32, 39, 41, 32, 42, 47>>
                      /\ i = 95 => label = <<32, 42, 47>>

C6_Witness ==
    /\ Succeeded
    /\ Len(ArrayLines(dst.data)) = 96
    /\ CommentOf(ArrayLines(dst.data)[96]) =
           <<32, 32, 47, 42, 32, 65, 83, 67, 73, 73, 32, 49, 50, 55, 32, 42, 47>>
    /\ CommentOf(ArrayLines(dst.data)[2]) =
           <<32, 32, 47, 42, 32, 65, 83, 67, 73, 73, 32, 32, 51, 51, 32, 40, 39, 33, 39, 41, 32, 42, 47>>

\* C7: a second successful run on the unchanged source and the same
\* destination leaves the destination byte-identical to what the first
\* successful run left: it overwrites, it does not append.  While the
\* second run has the destination open, the destination holds a prefix of
\* what the first run left, never the old content followed by new text.
C7_SecondRunIdentical ==
    (prev.ran /\ ~prev.changed) =>
        /\ dstOpen =>
              /\ Len(dst.data) <= Len(dst0.data)
              /\ SubSeq(dst0.data, 1, Len(dst.data)) = dst.data
        /\ Succeeded => dst.data = dst0.data

C7_Witness ==
    /\ prev.ran
    /\ ~prev.changed
    /\ Succeeded
    /\ dst0.kind = "file"
    /\ Len(dst0.data) > Len(OldContent)

\* C8: the source is opened, read and closed before the destination is
\* opened; the destination is opened at most once per call; no call ends
\* with either file open, whether the writes completed or one raised.
C8_FilesOrderedAndReleased ==
    /\ dstOpen => (~srcOpen /\ rom_data = src.data)
    /\ dstOpens >= 1 => ~srcOpen
    /\ dstOpens <= 1
    /\ dstOpen => dstOpens = 1
    /\ pc = "done" => (~srcOpen /\ ~dstOpen)

C8_Witness ==
    /\ pc = "done"
    /\ dstOpens = 1
    /\ stdout = <<Report("Error", output_path, 0, "OSError")>>
    /\ Len(dst.data) > 0
    /\ Len(ArrayLines(dst.data)) \in 1..95

\* The output is complete: header, 96 array lines, closing line.
CompleteOutput(t) ==
    /\ Len(t) > 0
    /\ t[Len(t)] = 10
    /\ Len(Lines(t)) = 7 + 96 + 1
    /\ Len(ArrayLines(t)) = 96
    /\ Lines(t)[7 + 96 + 1] = <<125, 59>>

\* C9: every call returns normally after printing exactly one report; the
\* success message is printed only once the complete output is written and
\* the destination closed; once an error is raised the call prints an error
\* message and never the success message.
C9_ReturnsWithOneReport ==
    /\ [](pc = "done" => (Len(stdout) = 1 /\ exc = NoExc))
    /\ [](\A k \in 1..Len(stdout) :
             stdout[k].kind = "Success" =>
                 (pc = "done" /\ ~dstOpen /\ CompleteOutput(dst.data)))
    /\ [][exc # NoExc =>
             \A k \in 1..Len(stdout') : stdout'[k].kind \in {"NotFound", "Error"}]_vars
    /\ (pc = "call") ~> (pc = "done")

C9_Witness ==
    /\ pc = "done"
    /\ LargeEnough
    /\ stdout = <<Report("Error", output_path, 0, "OSError")>>
    /\ CompleteOutput(dst.data)

====
